---- MODULE Spec2Model ----
(***************************************************************************)
(* Model of the biryani delivery demo.  The repository holds two builds of *)
(* the App component:                                                      *)
(*   "raf"      - the delivery tracker driven by requestAnimationFrame     *)
(*   "interval" - the earlier single-marker App.jsx driven by setInterval  *)
(* One of them is mounted; `build` records which.                          *)
(*                                                                         *)
(* Numbers.  Coordinates are centi-degrees.  Times are milliseconds.  The  *)
(* progress fraction t is held as its numerator over durationMs, the scale *)
(* factor in thousandths.  Math.sin(pi t) is computed with Bhaskara's      *)
(* rational approximation (exact at t = 0, 1/2, 1; error below 0.002).     *)
(*                                                                         *)
(* React.  An event handler or timer callback runs to completion and the   *)
(* component is re-rendered before the next event: state variables hold    *)
(* the committed state, which is also what the handler closures read.      *)
(* State setters called after unmount are dropped by React; writes to a    *)
(* ref object and calls to the host are not.                               *)
(*                                                                         *)
(* Dispatch.  handleOrderClick is modelled as callable in every mounted    *)
(* state: the handlers carry their own guards, and the button's disabled   *)
(* attribute is modelled separately as part of the rendered view.          *)
(*                                                                         *)
(* Time.  A frame requested from the click handler may be called with the  *)
(* timestamp of the frame already begun, which performance.now() read in   *)
(* the handler can lead by up to MaxLeadMs; later frames and interval      *)
(* ticks come 1..MaxSkip ticks of TickMs after the previous one.           *)
(***************************************************************************)
EXTENDS Integers, Sequences, FiniteSets, TLC

VARIABLES
    build,            \* which App component is mounted
    mounted,          \* FALSE after the component was torn down
    clock,            \* host time of the latest frame / timer event (ms)
    nextHandle,       \* next id the host hands out for a callback
    scheduled,        \* callbacks the host will still call
    isAnimating,      \* useState(false), both builds
    movingPosition,   \* raf: useState(null)
    movingScale,      \* raf: useState(1)
    showIdle,         \* raf: useState(true)
    deliveredMarkers, \* raf: useState([])
    deliveredCount,   \* raf: useState(0)
    animRef,          \* raf: useRef(null)
    position,         \* interval: useState(INDIA_COORD)
    scale,            \* interval: useState(1)
    animationRef,     \* interval: useRef(null)
    t,                \* progress numerator computed by the latest callback
    view,             \* what the latest render put on screen
    notice,           \* window.alert shown by the latest operation
    lastOp,           \* the latest operation
    probe             \* one application of the interpolation, with its inputs

appVars == <<build, mounted, clock, nextHandle, scheduled, isAnimating,
          movingPosition, movingScale, showIdle, deliveredMarkers,
          deliveredCount, animRef, position, scale, animationRef, t, view,
          notice, lastOp>>

vars == <<appVars, probe>>

trackerVars == <<isAnimating, movingPosition, movingScale, showIdle,
                 deliveredMarkers, deliveredCount, animRef>>

markerVars == <<position, scale, animationRef>>

----------------------------------------------------------------------------
(* Bounds of the model *)

TickMs == 2000      \* granularity of host time
MaxSkip == 2        \* a callback comes at most MaxSkip ticks after the last
MaxLeadMs == 16     \* performance.now() may lead the frame timestamp by this
MaxStarts == 3      \* interval build: animateBucket calls explored
MaxCoord == 2       \* interpolation alone: coordinates in -MaxCoord..MaxCoord
ProbeSteps == 4     \* interpolation alone: t = k / ProbeSteps, k in 0..ProbeSteps

----------------------------------------------------------------------------
(* Program constants *)

NoHandle == 0

NoPosition == <<>>

MAX_DELIVERIES == 5

durationMs == 6000

UnitScale == 1000

INDIA_COORD(b) == IF b = "raf" THEN <<1305, 8022>> ELSE <<1306, 8023>>

ARGENTINA_COORD(b) == IF b = "raf" THEN <<-3458, -5840>> ELSE <<-3460, -5838>>

NoNotice == "none"

NoticeMax == "Neeyum Biryani venum na"

NoticeNoIdle == "No biryani is currently waiting"

----------------------------------------------------------------------------
(* Pure functions *)

Min(a, b) == IF a < b THEN a ELSE b

lerpNoOrigin(a, b, tn) == a + (b * tn) \div durationMs

lerp(a, b, tn) == a + ((b - a) * tn) \div durationMs

Progress(elapsed) == Min(durationMs, elapsed)

SinPi(tn) ==
    LET p == (tn * (durationMs - tn)) \div 1000
    IN  (16000 * p) \div ((5 * durationMs * durationMs) \div 1000 - 4 * p)

scaleValue(tn) == UnitScale + (600 * SinPi(tn)) \div 1000

----------------------------------------------------------------------------
(* Host: requestAnimationFrame / setInterval and their cancellation *)

Callback(id, start, fresh) == [id |-> id, start |-> start, fresh |-> fresh]

cancelCallback(sched, id) == {c \in sched : c.id # id}

CancelPreviousNone(sched, ref) == sched

CancelPrevious(sched, ref) ==
    IF ref # NoHandle THEN cancelCallback(sched, ref) ELSE sched

Cleanup(sched, ref) ==
    IF ref # NoHandle THEN cancelCallback(sched, ref) ELSE sched

----------------------------------------------------------------------------
(* Render *)

RenderAlsoDisabledAtCap(b, anim, idle, mp, count) ==
    [disabled |-> anim \/ count >= MAX_DELIVERIES,
     delivered |-> count,
     idleMarker |-> b = "raf" /\ idle /\ ~anim,
     movingMarker |-> IF b = "raf" THEN mp # NoPosition ELSE TRUE]

Render(b, anim, idle, mp, count) ==
    [disabled |-> anim,
     delivered |-> count,
     idleMarker |-> b = "raf" /\ idle /\ ~anim,
     movingMarker |-> IF b = "raf" THEN mp # NoPosition ELSE TRUE]

SetState(new, old) == IF mounted THEN new ELSE old

----------------------------------------------------------------------------
(* raf build: the delivery tracker *)

OrderOutcomeNoCap(count, anim, idle) ==
    IF anim THEN "busy" ELSE "start"

OrderOutcomeUnguarded(count, anim, idle) ==
    IF count >= MAX_DELIVERIES THEN "max" ELSE "start"

OrderOutcomeIdleFirst(count, anim, idle) ==
    IF count >= MAX_DELIVERIES THEN "max"
    ELSE IF ~idle THEN "noidle"
    ELSE IF anim THEN "busy"
    ELSE "start"

OrderOutcomeOffByOne(count, anim, idle) ==
    IF count > MAX_DELIVERIES THEN "max"
    ELSE IF anim THEN "busy"
    ELSE IF ~idle THEN "noidle"
    ELSE "start"

OrderOutcome(count, anim, idle) ==
    IF count >= MAX_DELIVERIES THEN "max"
    ELSE IF anim THEN "busy"
    ELSE IF ~idle THEN "noidle"
    ELSE "start"

OutcomeNotice(o) ==
    CASE o = "max" -> NoticeMax
      [] o = "noidle" -> NoticeNoIdle
      [] OTHER -> NoNotice

TripStartNoPosition(from) == [pos |-> NoPosition, scale |-> UnitScale]

TripStart(from) == [pos |-> from, scale |-> UnitScale]

ShowIdleAfterNever(next) == FALSE

ShowIdleAfterInclusive(next) == next <= MAX_DELIVERIES

ShowIdleAfter(next) == next < MAX_DELIVERIES

AppendDeliveredReplace(prev, to) == <<to>>

AppendDelivered(prev, to) == Append(prev, to)

RescheduleDropped(sched, c, id) == sched \ {c}

Reschedule(sched, c, id) ==
    (sched \ {c}) \cup {Callback(id, c.start, FALSE)}

HandleOnArrivalKept(ref) == ref

HandleOnArrival(ref) == NoHandle

animateBucket(from, start) ==
    /\ movingPosition' = TripStart(from).pos
    /\ movingScale' = TripStart(from).scale
    /\ isAnimating' = TRUE
    /\ animRef' = nextHandle
    /\ scheduled' = scheduled \cup {Callback(nextHandle, start, TRUE)}
    /\ nextHandle' = nextHandle + 1

handleOrderClick ==
    /\ build = "raf"
    /\ mounted
    /\ LET o == OrderOutcome(deliveredCount, isAnimating, showIdle)
       IN  /\ notice' = OutcomeNotice(o)
           /\ IF o = "start"
              THEN /\ showIdle' = FALSE
                   /\ \E lead \in {0, MaxLeadMs} :
                          animateBucket(INDIA_COORD(build), clock + lead)
                   /\ UNCHANGED <<deliveredMarkers, deliveredCount>>
              ELSE UNCHANGED <<trackerVars, scheduled, nextHandle>>
    /\ view' = Render(build, isAnimating', showIdle', movingPosition',
                      deliveredCount')
    /\ lastOp' = "click"
    /\ UNCHANGED <<build, mounted, clock, markerVars, t, probe>>

step(c, now) ==
    LET from == INDIA_COORD(build)
        to == ARGENTINA_COORD(build)
        elapsed == now - c.start
        tn == Progress(elapsed)
        lat == lerp(from[1], to[1], tn)
        lng == lerp(from[2], to[2], tn)
        next == deliveredCount + 1
    IN  /\ t' = tn
        /\ IF tn < durationMs
           THEN /\ movingPosition' = SetState(<<lat, lng>>, movingPosition)
                /\ movingScale' = SetState(scaleValue(tn), movingScale)
                /\ animRef' = nextHandle
                /\ scheduled' = Reschedule(scheduled, c, nextHandle)
                /\ nextHandle' = nextHandle + 1
                /\ UNCHANGED <<isAnimating, showIdle, deliveredMarkers,
                               deliveredCount>>
           ELSE /\ animRef' = HandleOnArrival(animRef)
                /\ isAnimating' = SetState(FALSE, isAnimating)
                /\ deliveredMarkers' =
                       SetState(AppendDelivered(deliveredMarkers, to),
                                deliveredMarkers)
                /\ deliveredCount' = SetState(next, deliveredCount)
                /\ showIdle' = SetState(ShowIdleAfter(next), showIdle)
                /\ movingPosition' = SetState(NoPosition, movingPosition)
                /\ movingScale' = SetState(UnitScale, movingScale)
                /\ scheduled' = scheduled \ {c}
                /\ UNCHANGED nextHandle

Frame ==
    /\ build = "raf"
    /\ \E c \in scheduled :
         \E k \in (IF c.fresh THEN 0 ELSE 1) .. MaxSkip :
            /\ clock' = clock + k * TickMs
            /\ step(c, clock')
    /\ view' = IF mounted
               THEN Render(build, isAnimating', showIdle', movingPosition',
                           deliveredCount')
               ELSE view
    /\ notice' = NoNotice
    /\ lastOp' = "step"
    /\ UNCHANGED <<build, mounted, markerVars, probe>>

----------------------------------------------------------------------------
(* interval build: the single marker of App.jsx *)

ArrivedStrict(tn) == tn > durationMs

Arrived(tn) == tn >= durationMs

animateBucketInterval(start) ==
    /\ isAnimating' = TRUE
    /\ animationRef' = nextHandle
    /\ scheduled' = CancelPrevious(scheduled, animationRef)
                      \cup {Callback(nextHandle, start, FALSE)}
    /\ nextHandle' = nextHandle + 1

handleOrderClickInterval ==
    /\ build = "interval"
    /\ mounted
    /\ nextHandle <= MaxStarts
    /\ animateBucketInterval(clock)
    /\ view' = Render(build, isAnimating', showIdle, movingPosition,
                      deliveredCount)
    /\ notice' = NoNotice
    /\ lastOp' = "click"
    /\ UNCHANGED <<build, mounted, clock, position, scale, t,
                   movingPosition, movingScale, showIdle, deliveredMarkers,
                   deliveredCount, animRef, probe>>

tick(c, now) ==
    LET from == INDIA_COORD(build)
        to == ARGENTINA_COORD(build)
        elapsed == now - c.start
        tn == Progress(elapsed)
        lat == lerp(from[1], to[1], tn)
        lng == lerp(from[2], to[2], tn)
    IN  /\ t' = tn
        /\ position' = SetState(<<lat, lng>>, position)
        /\ scale' = SetState(scaleValue(tn), scale)
        /\ IF Arrived(tn)
           THEN /\ scheduled' = cancelCallback(scheduled, animationRef)
                /\ animationRef' = NoHandle
                /\ isAnimating' = SetState(FALSE, isAnimating)
           ELSE UNCHANGED <<scheduled, animationRef, isAnimating>>

Tick ==
    /\ build = "interval"
    /\ \E c \in scheduled :
         \E k \in 1 .. MaxSkip :
            /\ clock' = clock + k * TickMs
            /\ tick(c, clock')
    /\ view' = IF mounted
               THEN Render(build, isAnimating', showIdle, movingPosition,
                           deliveredCount)
               ELSE view
    /\ notice' = NoNotice
    /\ lastOp' = "tick"
    /\ UNCHANGED <<build, mounted, nextHandle, movingPosition, movingScale,
                   showIdle, deliveredMarkers, deliveredCount, animRef,
                   probe>>

----------------------------------------------------------------------------
(* Teardown *)

Unmount ==
    /\ mounted
    /\ mounted' = FALSE
    /\ scheduled' = IF build = "raf" THEN Cleanup(scheduled, animRef)
                    ELSE scheduled
    /\ notice' = NoNotice
    /\ lastOp' = "unmount"
    /\ UNCHANGED <<build, clock, nextHandle, trackerVars, markerVars, t, view,
                   probe>>

----------------------------------------------------------------------------

Probe(from, to) ==
    [applied |-> FALSE, from |-> from, to |-> to, tn |-> 0, pos |-> from,
     scale |-> UnitScale]

Constructed ==
    /\ mounted = TRUE
    /\ clock = 0
    /\ nextHandle = 1
    /\ scheduled = {}
    /\ isAnimating = FALSE
    /\ movingPosition = NoPosition
    /\ movingScale = UnitScale
    /\ showIdle = TRUE
    /\ deliveredMarkers = <<>>
    /\ deliveredCount = 0
    /\ animRef = NoHandle
    /\ position = INDIA_COORD("interval")
    /\ scale = UnitScale
    /\ animationRef = NoHandle
    /\ t = 0
    /\ view = Render(build, FALSE, TRUE, NoPosition, 0)
    /\ notice = NoNotice
    /\ lastOp = "init"

Init ==
    /\ build \in {"raf", "interval"}
    /\ Constructed
    /\ probe = Probe(INDIA_COORD(build), ARGENTINA_COORD(build))

Next ==
    \/ handleOrderClick
    \/ Frame
    \/ handleOrderClickInterval
    \/ Tick
    \/ Unmount

Spec == Init /\ [][Next]_vars

----------------------------------------------------------------------------
(* The user dispatches through the button, which delivers no click while   *)
(* disabled; the host keeps calling the callbacks it has scheduled.        *)

clickOrder == ~view.disabled /\ handleOrderClick

clickOrderInterval == ~view.disabled /\ handleOrderClickInterval

LiveNext ==
    \/ clickOrder
    \/ Frame
    \/ clickOrderInterval
    \/ Tick
    \/ Unmount

LiveSpec ==
    Init /\ [][LiveNext]_vars /\ WF_vars(Frame) /\ WF_vars(Tick)

----------------------------------------------------------------------------
(* The interpolation alone, applied to coordinates and fractions drawn     *)
(* from bounded sets.                                                      *)

Coords ==
    {<<x, y>> : x \in -MaxCoord .. MaxCoord, y \in -MaxCoord .. MaxCoord}
      \cup {INDIA_COORD("raf"), ARGENTINA_COORD("raf"),
            INDIA_COORD("interval"), ARGENTINA_COORD("interval")}

ProbeTimes == {(k * durationMs) \div ProbeSteps : k \in 0 .. ProbeSteps}

Interpolate ==
    /\ \E tn \in ProbeTimes :
          probe' = [probe EXCEPT
                      !.applied = TRUE,
                      !.tn = tn,
                      !.pos = <<lerp(probe.from[1], probe.to[1], tn),
                                lerp(probe.from[2], probe.to[2], tn)>>,
                      !.scale = scaleValue(tn)]
    /\ UNCHANGED appVars

InitInterpolate ==
    /\ build = "raf"
    /\ Constructed
    /\ probe \in {Probe(f, g) : f \in Coords, g \in Coords}

NextInterpolate == Interpolate

SpecInterpolate == InitInterpolate /\ [][NextInterpolate]_vars

----------------------------------------------------------------------------
(* States of the delivery tracker *)

InFlight == isAnimating

Idle == ~isAnimating /\ deliveredCount < MAX_DELIVERIES

Exhausted == ~isAnimating /\ deliveredCount >= MAX_DELIVERIES

CurrentHandle == IF build = "raf" THEN animRef ELSE animationRef

----------------------------------------------------------------------------
(* Properties *)

\* C1: whatever the clicks and animation-frame callbacks, the delivered
\* count never exceeds MAX_DELIVERIES.
C1_CountAtMostCap == deliveredCount <= MAX_DELIVERIES

C1_Witness ==
    /\ build = "raf"
    /\ deliveredCount = MAX_DELIVERIES
    /\ lastOp = "step"

\* C2: at most one advancement callback (animation frame or interval) is
\* scheduled in any reachable state.
C2_AtMostOneCallback == Cardinality(scheduled) <= 1

C2_Witness ==
    /\ Cardinality(scheduled) = 1
    /\ lastOp = "click"
    /\ isAnimating
    /\ nextHandle > 2

\* C3: a dispatch request made while a trip is in flight changes nothing in
\* the tracker, schedules no callback and shows no notice.
C3_DispatchInFlightIsNoOp ==
    [][(build = "raf" /\ InFlight /\ lastOp' = "click")
          => /\ UNCHANGED <<trackerVars, scheduled, nextHandle>>
             /\ notice' = NoNotice]_vars

C3_Witness ==
    /\ build = "raf"
    /\ lastOp = "click"
    /\ isAnimating
    /\ t > 0 /\ t < durationMs
    /\ notice = NoNotice

\* C4: once MAX_DELIVERIES trips completed the tracker is Exhausted with
\* MAX_DELIVERIES markers, and from then on every dispatch is rejected with
\* the notice and nothing of the tracker changes any more.
C4_ExhaustedRejectsForever ==
    /\ [](deliveredCount = MAX_DELIVERIES
            => /\ Exhausted
               /\ Len(deliveredMarkers) = MAX_DELIVERIES
               /\ scheduled = {})
    /\ [][deliveredCount = MAX_DELIVERIES
            => /\ UNCHANGED <<trackerVars, scheduled>>
               /\ (lastOp' = "click" => notice' = NoticeMax)]_vars

C4_Witness ==
    /\ deliveredCount = MAX_DELIVERIES
    /\ Len(deliveredMarkers) = MAX_DELIVERIES
    /\ lastOp = "click"
    /\ notice = NoticeMax

\* C5: a dispatch request in Idle always starts a trip (in flight, idle
\* marker hidden, one callback scheduled, moving marker at the start with
\* scale 1, count and markers unchanged), and a trip starts from no other
\* state.
C5_IdleDispatchStartsTrip ==
    [][build = "raf"
         => /\ (Idle /\ lastOp' = "click")
                 => /\ InFlight'
                    /\ ~showIdle'
                    /\ ~view'.idleMarker
                    /\ Cardinality(scheduled') = 1
                    /\ movingPosition' = INDIA_COORD(build)
                    /\ movingScale' = UnitScale
                    /\ notice' = NoNotice
                    /\ UNCHANGED <<deliveredCount, deliveredMarkers>>
            /\ (scheduled' # scheduled /\ lastOp' = "click")
                 => Idle
            /\ (~isAnimating /\ isAnimating')
                 => (Idle /\ lastOp' = "click")]_vars

C5_Witness ==
    /\ build = "raf"
    /\ lastOp = "click"
    /\ isAnimating
    /\ movingPosition = INDIA_COORD(build)
    /\ deliveredCount > 0

\* C6: the step in which the progress fraction reaches 1 adds exactly 1 to
\* the delivered count and leaves the tracker Idle with the idle marker
\* shown when the new count is below the cap, Exhausted without idle marker
\* when it equals the cap; no other step changes the count.
C6_CompletionOutcome ==
    [][build = "raf"
         => /\ (lastOp' = "step" /\ t' >= durationMs)
                 => /\ deliveredCount' = deliveredCount + 1
                    /\ deliveredCount' <= MAX_DELIVERIES
                    /\ (deliveredCount' < MAX_DELIVERIES
                          => Idle' /\ showIdle' /\ view'.idleMarker)
                    /\ (deliveredCount' = MAX_DELIVERIES
                          => Exhausted' /\ ~showIdle' /\ ~view'.idleMarker)
            /\ (deliveredCount' # deliveredCount)
                 => (lastOp' = "step" /\ t' >= durationMs /\ InFlight)]_vars

C6_Witness ==
    /\ build = "raf"
    /\ lastOp = "step"
    /\ t = durationMs
    /\ deliveredCount = MAX_DELIVERIES
    /\ ~showIdle
    /\ ~view.idleMarker

\* C7: the delivered markers only grow, by one destination coordinate per
\* completed trip; their number equals the delivered count and is at most
\* MAX_DELIVERIES.
C7_MarkersGrowOnly ==
    /\ [](/\ Len(deliveredMarkers) = deliveredCount
          /\ Len(deliveredMarkers) <= MAX_DELIVERIES
          /\ \A i \in 1 .. Len(deliveredMarkers) :
                deliveredMarkers[i] = ARGENTINA_COORD("raf"))
    /\ [][\/ deliveredMarkers' = deliveredMarkers
          \/ /\ deliveredMarkers'
                  = Append(deliveredMarkers, ARGENTINA_COORD(build))
             /\ lastOp' = "step"
             /\ t' >= durationMs]_vars

C7_Witness ==
    /\ Len(deliveredMarkers) = 2
    /\ deliveredCount = 2
    /\ lastOp = "step"
    /\ ~isAnimating

\* C8: after the component was torn down no advancement callback is pending,
\* so none fires.
C8_TeardownCancelsPending == ~mounted => scheduled = {}

\* C9: starting a trip leaves exactly the new trip's callback pending, and a
\* pending callback is always the one the stored handle names, never one of
\* a superseded trip.
C9_StartSupersedesPending ==
    /\ [](\A c \in scheduled : c.id = CurrentHandle)
    /\ [][(lastOp' = "click" /\ nextHandle' # nextHandle)
            => /\ Cardinality(scheduled') = 1
               /\ \A c \in scheduled' :
                     c.id = nextHandle /\ c.id = CurrentHandle']_vars

C9_Witness ==
    /\ build = "interval"
    /\ lastOp = "click"
    /\ t > 0 /\ t < durationMs
    /\ isAnimating
    /\ scheduled = {Callback(animationRef, clock, FALSE)}

\* C10: the dispatch button is disabled exactly when a trip is in flight, so
\* it is enabled in Idle and in Exhausted.
C10_DisabledIffAnimating ==
    /\ view.disabled <=> isAnimating
    /\ Idle => ~view.disabled
    /\ Exhausted => ~view.disabled

C10_Witness ==
    /\ build = "raf"
    /\ mounted
    /\ Exhausted
    /\ ~view.disabled

\* C11: in every invocation of the animation callback the progress fraction
\* lies in [0, 1], whatever timestamp the host passes.
C11_ProgressInUnitInterval ==
    lastOp \in {"step", "tick"} => (0 <= t /\ t <= durationMs)

Between(a, x, b) == (a <= x /\ x <= b) \/ (b <= x /\ x <= a)

C13_MovingMarkerIffAnimating ==
    /\ [](build = "raf"
            => /\ (movingPosition # NoPosition) <=> isAnimating
               /\ view.movingMarker <=> isAnimating
               /\ ~isAnimating => movingScale = UnitScale)
    /\ [][(build = "raf" /\ isAnimating /\ ~isAnimating')
            => /\ movingPosition' = NoPosition
               /\ movingScale' = UnitScale
               /\ ~view'.movingMarker]_vars

C13_Witness ==
    /\ build = "raf"
    /\ lastOp = "step"
    /\ ~isAnimating
    /\ movingPosition = NoPosition
    /\ movingScale = UnitScale
    /\ deliveredCount = 1

C15_TripEventuallyCompletes ==
    (isAnimating /\ mounted) ~> (~isAnimating \/ ~mounted)

C15_Witness ==
    /\ mounted
    /\ lastOp \in {"step", "tick"}
    /\ t >= durationMs
    /\ ~isAnimating
    /\ nextHandle > 1

\* C16: while no trip is animating showIdle is true exactly when the
\* delivered count is below the cap, and the "No biryani is currently
\* waiting" notice is never shown.
C16_IdleFlagMatchesCount ==
    /\ (build = "raf" /\ ~isAnimating)
         => (showIdle <=> deliveredCount < MAX_DELIVERIES)
    /\ notice # NoticeNoIdle

C16_Witness ==
    /\ build = "raf"
    /\ ~isAnimating
    /\ ~showIdle
    /\ deliveredCount = MAX_DELIVERIES
    /\ lastOp = "click"

HandleTracksPending ==
    /\ (animRef # NoHandle) <=> (scheduled # {})
    /\ \A c \in scheduled : c.id = animRef
    /\ animRef # NoHandle => animRef = nextHandle - 1
    /\ ~isAnimating => animRef = NoHandle

\* C17 as stated: in every state the stored handle is non-null exactly when
\* a callback is scheduled, names the latest one scheduled, and is null when
\* no trip is active.
C17_HandleTracksPendingAlways == build = "raf" => HandleTracksPending

\* C17: while the component is mounted the stored handle is non-null exactly
\* when a callback is scheduled, names the latest one scheduled, and is null
\* when no trip is active.
C17_HandleTracksPendingMounted ==
    (build = "raf" /\ mounted) => HandleTracksPending

C17_Witness ==
    /\ build = "raf"
    /\ mounted
    /\ lastOp = "step"
    /\ isAnimating
    /\ animRef = nextHandle - 1
    /\ \E c \in scheduled : c.id = animRef /\ ~c.fresh

====
